---- MODULE Spec2Model ----
(***************************************************************************)
(* A model of the tagged-vec crate: the TaggedVec container (src/lib.rs),  *)
(* its raw binary codec (src/binary_io.rs) and the IndexIterator           *)
(* (src/index_iterator.rs).                                                *)
(*                                                                         *)
(* Sequences are 1-based in TLA+; the crate's offsets are 0-based.  The    *)
(* element at offset i of a Vec is element i+1 of the sequence modelling   *)
(* it.                                                                     *)
(***************************************************************************)
EXTENDS Integers, Sequences, FiniteSets

\* ------------------------------------------------------------------ bounds
\* Longest container the operations grow (push and insert are guarded by it).
MaxLen == 3
\* Longest index sequence handed to remove_multi on a freshly built container.
MaxDel == 3
\* Longest index sequence handed to remove_multi among the other operations.
MaxOpDel == 2
\* Largest offset an IndexIterator is created with.
MaxEnd == 4
\* Longest container written by the codec.
MaxElems == 2

\* mem::size_of::<usize>() on a 64-bit machine.
UsizeBytes == 8
\* mem::size_of::<Value>() for Value = u16.
ValueSize == 2

\* The element values.  The container never inspects a Value (it is a type
\* parameter of TaggedVec), so two distinguishable values are enough to tell
\* any two positions apart.
Values == {0, 1}

\* ------------------------------------------------------- the Index type
\* A newtype over usize with From<usize> and Into<usize>.
IndexFrom(offset) == [offset |-> offset]
IndexInto(index) == index.offset

\* Every index a caller can hand in.  A container holds at most MaxLen
\* elements, so the index MaxLen is out of range for every container.
Indices == {IndexFrom(n) : n \in 0 .. MaxLen}

None == [tag |-> "None"]
Some(x) == [tag |-> "Some", val |-> x]

\* --------------------------------------------------------------- state
VARIABLES
    vec,       \* TaggedVec.vec: the container's elements
    last,      \* the last container operation: name, arguments, the elements before it, what it returned
    prevOp,    \* the name of the operation before the last one
    ixIter,    \* the IndexIterator: start_inclusive, end_exclusive
    ixLog,     \* what the IndexIterator was created with and has done since
    machine,   \* the byte order of the machine the codec runs on
    written,   \* the container handed to write_binary
    stream,    \* the bytes in the sink that write_binary filled and read_binary reads
    readResult \* what the last read_binary returned, and whether its source held the whole image

cvars == <<vec, last, prevOp>>
ivars == <<ixIter, ixLog>>
bvars == <<machine, written, stream, readResult>>
vars == <<vec, last, prevOp, ixIter, ixLog, machine, written, stream, readResult>>

\* ------------------------------------------------------- Vec operations
\* An insert that ignores the position and appends.
VecInsertAtEnd(v, i, value) == Append(v, value)

\* alloc::vec::Vec::insert: panics when index > len, before changing anything.
VecInsert(v, i, value) ==
    SubSeq(v, 1, i) \o <<value>> \o SubSeq(v, i + 1, Len(v))

\* Vec::retain with a pure predicate: keeps the elements the predicate accepts.
VecRetain(v, keep) == SelectSeq(v, LAMBDA x : x \in keep)

\* --------------------------------------------------- TaggedVec methods
\* Each returns the elements afterwards, the return value and how the call ended.

push(v, value) ==
    LET index == IndexFrom(Len(v))
    IN  [vec |-> Append(v, value), ret |-> index, outcome |-> "ok"]

\* The closures handed to push_in_place: a constant, or a value computed from
\* the index the element is about to get (here its parity).
Closures == [kind : {"const"}, v : Values] \cup {[kind |-> "of_index"]}
Call(f, index) ==
    IF f.kind = "const" THEN f.v ELSE IndexInto(index) % 2

push_in_place(v, f) ==
    LET index == Len(v)
    IN  [vec |-> Append(v, Call(f, IndexFrom(index))),
         ret |-> IndexFrom(index), outcome |-> "ok"]

\* pop computing the index before the element is taken off.
pop_index_before(v) ==
    IF v # <<>>
    THEN [vec |-> SubSeq(v, 1, Len(v) - 1),
          ret |-> Some(<<IndexFrom(Len(v)), v[Len(v)]>>), outcome |-> "ok"]
    ELSE [vec |-> v, ret |-> None, outcome |-> "ok"]

\* pop that unwraps the Vec's own pop.
pop_unwrap(v) ==
    IF v # <<>>
    THEN [vec |-> SubSeq(v, 1, Len(v) - 1),
          ret |-> Some(<<IndexFrom(Len(v) - 1), v[Len(v)]>>), outcome |-> "ok"]
    ELSE [vec |-> v, ret |-> None, outcome |-> "panic"]

pop(v) ==
    IF v # <<>>
    THEN LET value == v[Len(v)]
             rest == SubSeq(v, 1, Len(v) - 1)
         IN  [vec |-> rest, ret |-> Some(<<IndexFrom(Len(rest)), value>>), outcome |-> "ok"]
    ELSE [vec |-> v, ret |-> None, outcome |-> "ok"]

insert(v, index, value) ==
    LET i == IndexInto(index)
    IN  IF i > Len(v)
        THEN [vec |-> v, ret |-> None, outcome |-> "panic"]
        ELSE [vec |-> VecInsert(v, i, value), ret |-> None, outcome |-> "ok"]

retain(v, keep) ==
    [vec |-> VecRetain(v, keep), ret |-> None, outcome |-> "ok"]

\* The pass with current_index advanced only when an element is deleted.
RECURSIVE RetainPassCountsDeleted(_, _, _, _, _)
RetainPassCountsDeleted(orig, p, kept, indices, current_index) ==
    IF p > Len(orig)
    THEN [vec |-> kept, indices |-> indices, panicked |-> FALSE]
    ELSE IF indices # <<>>
    THEN LET next_delete_index == IndexInto(Head(indices))
         IN  IF next_delete_index = current_index
             THEN LET rest == Tail(indices)
                  IN  IF rest # <<>> /\ ~(IndexInto(Head(rest)) > next_delete_index)
                      THEN [vec |-> kept \o SubSeq(orig, p, Len(orig)),
                            indices |-> rest, panicked |-> TRUE]
                      ELSE RetainPassCountsDeleted(orig, p + 1, kept, rest, current_index + 1)
             ELSE RetainPassCountsDeleted(orig, p + 1, Append(kept, orig[p]), indices,
                                          current_index)
    ELSE RetainPassCountsDeleted(orig, p + 1, Append(kept, orig[p]), indices, current_index)

\* The pass with the element under the failing assertion deleted before the
\* assertion is made.
RECURSIVE RetainPassDeletesFirst(_, _, _, _, _)
RetainPassDeletesFirst(orig, p, kept, indices, current_index) ==
    IF p > Len(orig)
    THEN [vec |-> kept, indices |-> indices, panicked |-> FALSE]
    ELSE IF indices # <<>>
    THEN LET next_delete_index == IndexInto(Head(indices))
         IN  IF next_delete_index = current_index
             THEN LET rest == Tail(indices)
                  IN  IF rest # <<>> /\ ~(IndexInto(Head(rest)) > next_delete_index)
                      THEN [vec |-> kept \o SubSeq(orig, p + 1, Len(orig)),
                            indices |-> rest, panicked |-> TRUE]
                      ELSE RetainPassDeletesFirst(orig, p + 1, kept, rest, current_index + 1)
             ELSE RetainPassDeletesFirst(orig, p + 1, Append(kept, orig[p]), indices,
                                         current_index + 1)
    ELSE RetainPassDeletesFirst(orig, p + 1, Append(kept, orig[p]), indices, current_index)

\* The closure of remove_multi driven by Vec::retain over the elements orig,
\* from position p (1-based) on.  kept are the elements retained so far,
\* indices the pending deletions, current_index the closure's counter.
\* When the closure's assertion fails, Vec::retain's drop guard shifts the
\* unvisited elements (the one being visited included) down behind kept.
RECURSIVE RetainPass(_, _, _, _, _)
RetainPass(orig, p, kept, indices, current_index) ==
    IF p > Len(orig)
    THEN [vec |-> kept, indices |-> indices, panicked |-> FALSE]
    ELSE IF indices # <<>>
    THEN LET next_delete_index == IndexInto(Head(indices))
         IN  IF next_delete_index = current_index
             THEN LET rest == Tail(indices)
                  IN  IF rest # <<>> /\ ~(IndexInto(Head(rest)) > next_delete_index)
                      THEN [vec |-> kept \o SubSeq(orig, p, Len(orig)),
                            indices |-> rest, panicked |-> TRUE]
                      ELSE RetainPass(orig, p + 1, kept, rest, current_index + 1)
             ELSE RetainPass(orig, p + 1, Append(kept, orig[p]), indices, current_index + 1)
    ELSE RetainPass(orig, p + 1, Append(kept, orig[p]), indices, current_index)

\* remove_multi without its closing assertion.
remove_multi_unchecked(v, indices) ==
    LET pass == RetainPass(v, 1, <<>>, indices, 0)
    IN  IF pass.panicked
        THEN [vec |-> pass.vec, ret |-> None, outcome |-> "panic", at |-> "ascending"]
        ELSE [vec |-> pass.vec, ret |-> None, outcome |-> "ok", at |-> "none"]

remove_multi(v, indices) ==
    LET pass == RetainPass(v, 1, <<>>, indices, 0)
    IN  IF pass.panicked
        THEN [vec |-> pass.vec, ret |-> None, outcome |-> "panic", at |-> "ascending"]
        ELSE IF pass.indices # <<>>
        THEN [vec |-> pass.vec, ret |-> None, outcome |-> "panic", at |-> "consumed"]
        ELSE [vec |-> pass.vec, ret |-> None, outcome |-> "ok", at |-> "none"]

\* ------------------------------------------------------------- actions
RECURSIVE SeqsUpTo(_, _)
SeqsUpTo(S, n) ==
    IF n = 0 THEN {<<>>}
    ELSE LET shorter == SeqsUpTo(S, n - 1)
         IN  shorter \cup {Append(s, x) : s \in shorter, x \in S}

OpKind(name) == IF name \in {"push", "push_in_place"} THEN name ELSE "other"

Record(name, args, r) ==
    /\ UNCHANGED <<ivars, bvars>>
    /\ vec' = r.vec
    /\ last' = [op |-> name, args |-> args, pre |-> vec, ret |-> r.ret,
                outcome |-> r.outcome]
    /\ prevOp' = OpKind(last.op)

Push ==
    \E value \in Values :
        /\ Len(vec) < MaxLen
        /\ Record("push", [value |-> value], push(vec, value))

PushInPlace ==
    \E f \in Closures :
        /\ Len(vec) < MaxLen
        /\ Record("push_in_place", [f |-> f], push_in_place(vec, f))

Pop == Record("pop", None, pop(vec))

Insert ==
    \E index \in Indices, value \in Values :
        /\ Len(vec) < MaxLen
        /\ Record("insert", [index |-> index, value |-> value], insert(vec, index, value))

Retain ==
    \E keep \in SUBSET Values :
        Record("retain", [keep |-> keep], retain(vec, keep))

RemoveMultiOf(candidates) ==
    \E indices \in candidates :
        LET r == remove_multi(vec, indices)
        IN  /\ UNCHANGED <<ivars, bvars>>
            /\ vec' = r.vec
            /\ last' = [op |-> "remove_multi", args |-> [indices |-> indices],
                        pre |-> vec, ret |-> r.ret, outcome |-> r.outcome, at |-> r.at]
            /\ prevOp' = OpKind(last.op)

RemoveMulti == RemoveMultiOf(SeqsUpTo(Indices, MaxOpDel))

\* TaggedVec::new()
NewVec ==
    /\ vec = <<>>
    /\ last = [op |-> "new", args |-> None, pre |-> <<>>, ret |-> None, outcome |-> "ok"]
    /\ prevOp = "other"

\* ------------------------------------------- iteration over a TaggedVec
\* iter(): slice::Iter wrapped in Enumerate and mapped to (Index, &Value).
\* Enumerate keeps the count of items taken from the front.
iter(v) == [slice |-> v, count |-> 0]

iter_next(s) ==
    IF s.slice = <<>>
    THEN [it |-> s, item |-> None]
    ELSE [it |-> [slice |-> Tail(s.slice), count |-> s.count + 1],
          item |-> Some(<<IndexFrom(s.count), Head(s.slice)>>)]

\* Enumerate::next_back with the index one too far.
iter_next_back_len(s) ==
    IF s.slice = <<>>
    THEN [it |-> s, item |-> None]
    ELSE [it |-> [slice |-> SubSeq(s.slice, 1, Len(s.slice) - 1), count |-> s.count],
          item |-> Some(<<IndexFrom(s.count + Len(s.slice)), s.slice[Len(s.slice)]>>)]

\* Enumerate::next_back: the item from the back, indexed by count plus the
\* number of items still in the slice after taking it.
iter_next_back(s) ==
    IF s.slice = <<>>
    THEN [it |-> s, item |-> None]
    ELSE LET a == s.slice[Len(s.slice)]
             rest == SubSeq(s.slice, 1, Len(s.slice) - 1)
             len == Len(rest)
         IN  [it |-> [slice |-> rest, count |-> s.count],
              item |-> Some(<<IndexFrom(s.count + len), a>>)]

\* iter_indices(): the range 0..len mapped to Index.
iter_indices(v) == [start |-> 0, end |-> Len(v)]

indices_next(r) ==
    IF r.start < r.end
    THEN [it |-> [r EXCEPT !.start = r.start + 1], item |-> Some(IndexFrom(r.start))]
    ELSE [it |-> r, item |-> None]

indices_next_back(r) ==
    IF r.start < r.end
    THEN [it |-> [r EXCEPT !.end = r.end - 1], item |-> Some(IndexFrom(r.end - 1))]
    ELSE [it |-> r, item |-> None]

\* One call on an iterator: by names the method called.
Step(by, s) ==
    CASE by = "iter.next" -> iter_next(s)
      [] by = "iter.next_back" -> iter_next_back(s)
      [] by = "iter_indices.next" -> indices_next(s)
      [] by = "iter_indices.next_back" -> indices_next_back(s)

\* What a consumer collects by calling the method until it returns None.
RECURSIVE Collect(_, _)
Collect(by, s) ==
    LET r == Step(by, s)
    IN  IF r.item = None THEN <<>> ELSE <<r.item.val>> \o Collect(by, r.it)

\* ------------------------------------------------------- IndexIterator
IndexIterator_new(start_inclusive, end_exclusive) ==
    [start_inclusive |-> start_inclusive, end_exclusive |-> end_exclusive]

next(self) ==
    IF self.start_inclusive < self.end_exclusive
    THEN LET index == self.start_inclusive
         IN  [self |-> [self EXCEPT !.start_inclusive = index + 1],
              ret |-> Some(IndexFrom(index))]
    ELSE [self |-> self, ret |-> None]

\* next_back yielding end_exclusive as it was before the decrement.
next_back_stale(self) ==
    IF self.start_inclusive < self.end_exclusive
    THEN [self |-> [self EXCEPT !.end_exclusive = self.end_exclusive - 1],
          ret |-> Some(IndexFrom(self.end_exclusive))]
    ELSE [self |-> self, ret |-> None]

next_back(self) ==
    IF self.start_inclusive < self.end_exclusive
    THEN LET end == self.end_exclusive - 1
         IN  [self |-> [self EXCEPT !.end_exclusive = end],
              ret |-> Some(IndexFrom(end))]
    ELSE [self |-> self, ret |-> None]

\* usize subtraction: start_inclusive > end_exclusive overflows (a panic in a
\* debug build, a wrapped length in a release build).
Overflow == [tag |-> "Overflow"]
size_hint(self) ==
    IF self.end_exclusive >= self.start_inclusive
    THEN LET len == self.end_exclusive - self.start_inclusive
         IN  <<len, Some(len)>>
    ELSE Overflow

IdleIter ==
    /\ ixIter = IndexIterator_new(0, 0)
    /\ ixLog = [start |-> 0, end |-> 0, yielded |-> <<>>, op |-> "new",
                pre |-> IndexIterator_new(0, 0), ret |-> None]

IterNew ==
    \E s \in 0 .. MaxEnd, e \in 0 .. MaxEnd :
        /\ ixIter' = IndexIterator_new(s, e)
        /\ ixLog' = [start |-> s, end |-> e, yielded |-> <<>>, op |-> "new",
                     pre |-> ixIter, ret |-> None]
        /\ UNCHANGED <<cvars, bvars>>

IterCall(name, r) ==
    /\ ixIter' = r.self
    /\ ixLog' = [ixLog EXCEPT
                    !.yielded = IF r.ret = None THEN @
                                ELSE Append(@, [by |-> name, index |-> r.ret.val]),
                    !.op = name, !.pre = ixIter, !.ret = r.ret]
    /\ UNCHANGED <<cvars, bvars>>

IterNext == IterCall("next", next(ixIter))

IterNextBack == IterCall("next_back", next_back(ixIter))

IterStep ==
    \/ IterNew
    \/ IterNext
    \/ IterNextBack

\* ------------------------------------------------------- the binary codec
Machines == {"le", "be"}

\* The values stored in the containers the codec writes.
CodecValues == {0, 42, 1337}

\* What uninitialized memory may hold.
UninitBytes == {0, 255}

RECURSIVE Reverse(_)
Reverse(s) == IF s = <<>> THEN <<>> ELSE Append(Reverse(Tail(s)), Head(s))

RECURSIVE LittleEndian(_, _)
LittleEndian(n, width) ==
    IF width = 0 THEN <<>> ELSE <<n % 256>> \o LittleEndian(n \div 256, width - 1)

RECURSIVE FromLittleEndian(_)
FromLittleEndian(bytes) ==
    IF bytes = <<>> THEN 0 ELSE Head(bytes) + 256 * FromLittleEndian(Tail(bytes))

to_ne_bytes(n, width, m) ==
    IF m = "le" THEN LittleEndian(n, width) ELSE Reverse(LittleEndian(n, width))

from_ne_bytes(bytes, m) ==
    IF m = "le" THEN FromLittleEndian(bytes) ELSE FromLittleEndian(Reverse(bytes))

\* The elements encoded little-endian whatever the machine, instead of copied
\* as they lie in memory.
RECURSIVE RawBytesLittleEndian(_, _)
RawBytesLittleEndian(v, m) ==
    IF v = <<>> THEN <<>>
    ELSE LittleEndian(Head(v), ValueSize) \o RawBytesLittleEndian(Tail(v), m)

\* The backing buffer's memory: each element's bytes, one after the other.
RECURSIVE RawBytes(_, _)
RawBytes(v, m) ==
    IF v = <<>> THEN <<>> ELSE to_ne_bytes(Head(v), ValueSize, m) \o RawBytes(Tail(v), m)

\* The bytes write_binary hands to the writer.
write_binary(v, m) ==
    to_ne_bytes(Len(v), UsizeBytes, m) \o RawBytes(v, m)

Min(a, b) == IF a <= b THEN a ELSE b

\* The payload bytes read_binary asks for and the source does not hold.
Shortfall(src, m) ==
    IF Len(src) < UsizeBytes THEN 0
    ELSE LET len == from_ne_bytes(SubSeq(src, 1, UsizeBytes), m)
             data_bytes_len == ValueSize * len
         IN  data_bytes_len - Min(data_bytes_len, Len(src) - UsizeBytes)

\* read_binary from a source holding the bytes src.  read_exact fails on a
\* source shorter than the count; take(..).read_to_end stops at the end of the
\* source without an error, and set_len(len) then exposes whatever the
\* allocation held (uninit) in the bytes that were never read.
read_binary(src, uninit, m) ==
    IF Len(src) < UsizeBytes
    THEN [tag |-> "Err", kind |-> "UnexpectedEof", src |-> src]
    ELSE LET len == from_ne_bytes(SubSeq(src, 1, UsizeBytes), m)
             value_size == ValueSize
             data_bytes_len == value_size * len
             n_read == Min(data_bytes_len, Len(src) - UsizeBytes)
             data_bytes == SubSeq(src, UsizeBytes + 1, UsizeBytes + n_read)
             memory == data_bytes \o SubSeq(uninit, 1, data_bytes_len - n_read)
         IN  [tag |-> "Ok",
              vec |-> [i \in 1 .. len |->
                         from_ne_bytes(SubSeq(memory, (i - 1) * value_size + 1,
                                              i * value_size), m)],
              bytes_read |-> n_read, src |-> src]

NotRead == [tag |-> "NotRead"]

IdleCodec ==
    /\ machine = "le"
    /\ written = <<>>
    /\ stream = [bytes |-> <<>>, intact |-> FALSE]
    /\ readResult = [result |-> NotRead, intact |-> FALSE]

\* A container built from a sequence (FromIterator) and an empty sink.
CodecBuild ==
    \E S \in SeqsUpTo(CodecValues, MaxElems) :
        /\ written' = S
        /\ stream' = [bytes |-> <<>>, intact |-> FALSE]
        /\ readResult' = [result |-> NotRead, intact |-> FALSE]
        /\ UNCHANGED <<machine, cvars, ivars>>

CodecWrite ==
    /\ stream.bytes = <<>>
    /\ stream' = [bytes |-> write_binary(written, machine), intact |-> TRUE]
    /\ UNCHANGED <<machine, written, readResult, cvars, ivars>>

\* The source ends early: only the first k bytes of the image reach the reader.
CodecTruncate ==
    \E k \in 0 .. (Len(stream.bytes) - 1) :
        /\ stream.intact
        /\ stream' = [bytes |-> SubSeq(stream.bytes, 1, k), intact |-> FALSE]
        /\ UNCHANGED <<machine, written, readResult, cvars, ivars>>

CodecRead ==
    \E uninit \in [1 .. Shortfall(stream.bytes, machine) -> UninitBytes] :
        /\ readResult' = [result |-> read_binary(stream.bytes, uninit, machine),
                          intact |-> stream.intact]
        /\ UNCHANGED <<machine, written, stream, cvars, ivars>>

CodecInit ==
    /\ NewVec
    /\ IdleIter
    /\ machine \in Machines
    /\ written = <<>>
    /\ stream = [bytes |-> <<>>, intact |-> FALSE]
    /\ readResult = [result |-> NotRead, intact |-> FALSE]

CodecNext ==
    \/ CodecBuild
    \/ CodecWrite
    \/ CodecTruncate
    \/ CodecRead

SpecCodec == CodecInit /\ [][CodecNext]_vars


Init ==
    /\ NewVec
    /\ IdleIter
    /\ IdleCodec

Next ==
    \/ Push
    \/ PushInPlace
    \/ Pop
    \/ Insert
    \/ Retain
    \/ RemoveMulti

Spec == Init /\ [][Next]_vars

\* A container built from a sequence (FromIterator) and handed to remove_multi
\* once, as the crate's delete_multi test does.
FromIterInit ==
    /\ vec \in SeqsUpTo(Values, MaxLen)
    /\ last = [op |-> "from_iter", args |-> None, pre |-> <<>>, ret |-> None,
               outcome |-> "ok"]
    /\ prevOp = "other"
    /\ IdleIter
    /\ IdleCodec

RemoveMultiOnce ==
    /\ last.op = "from_iter"
    /\ RemoveMultiOf(SeqsUpTo(Indices, MaxDel))

SpecRemove == FromIterInit /\ [][RemoveMultiOnce]_vars

IterInit ==
    /\ NewVec
    /\ IdleIter
    /\ IdleCodec

SpecIter == IterInit /\ [][IterStep]_vars

\* ================================================================ claims
\* The offsets of an index sequence.
Offsets(D) == {IndexInto(D[j]) : j \in 1 .. Len(D)}

\* D is strictly ascending and every index of it is below n.
StrictlyAscendingInRange(D, n) ==
    /\ \A j \in 1 .. Len(D) : IndexInto(D[j]) < n
    /\ \A j \in 1 .. (Len(D) - 1) : IndexInto(D[j]) < IndexInto(D[j + 1])

\* v with the elements at the offsets in gone deleted, the others in order.
WithoutOffsets(v, gone) ==
    LET keptPos == {i \in 1 .. Len(v) : (i - 1) \notin gone}
        nth(j) == CHOOSE i \in keptPos : Cardinality({k \in keptPos : k <= i}) = j
    IN  [j \in 1 .. Cardinality(keptPos) |-> v[nth(j)]]

\* C1: remove_multi with a strictly ascending, in-range index sequence D ends
\* normally and leaves len - |D| elements: those at the positions not in D, in
\* their original order.
C1_RemoveMultiDeletesExactlyD ==
    (last.op = "remove_multi" /\ StrictlyAscendingInRange(last.args.indices, Len(last.pre)))
        => /\ last.outcome = "ok"
           /\ Len(vec) = Len(last.pre) - Len(last.args.indices)
           /\ vec = WithoutOffsets(last.pre, Offsets(last.args.indices))

\* Two separated positions of a three-element container were removed in one pass.
C1_Witness ==
    /\ last.op = "remove_multi"
    /\ last.args.indices = <<IndexFrom(0), IndexFrom(2)>>
    /\ last.pre = <<0, 1, 0>>
    /\ last.outcome = "ok"
    /\ vec = <<1>>

\* C2: remove_multi with an index sequence that is not strictly ascending or
\* holds an index beyond the container fails an assertion; it never returns
\* normally.
C2_MalformedIndicesPanic ==
    (last.op = "remove_multi" /\ ~StrictlyAscendingInRange(last.args.indices, Len(last.pre)))
        => last.outcome = "panic"

\* A duplicate index on a container that holds that position.
C2_Witness ==
    /\ last.op = "remove_multi"
    /\ last.args.indices = <<IndexFrom(1), IndexFrom(1)>>
    /\ Len(last.pre) = 3
    /\ last.outcome = "panic"

\* The length of the longest prefix of D that is strictly ascending and in range.
ValidPrefix(D, n) ==
    CHOOSE m \in 0 .. Len(D) :
        /\ StrictlyAscendingInRange(SubSeq(D, 1, m), n)
        /\ m < Len(D) => ~StrictlyAscendingInRange(SubSeq(D, 1, m + 1), n)

\* The offsets a failing remove_multi has deleted when its assertion fires:
\* the valid prefix of D, less its last index when the index after it is not
\* greater (the ascending assertion fires while that last index is visited).
DeletedBeforeFailure(D, n) ==
    LET m == ValidPrefix(D, n)
    IN  IF m >= 1 /\ m < Len(D) /\ IndexInto(D[m + 1]) <= IndexInto(D[m])
        THEN Offsets(SubSeq(D, 1, m - 1))
        ELSE Offsets(SubSeq(D, 1, m))

\* C5 (as stated): when remove_multi's assertion fires the container still
\* holds exactly the elements it held before the call.
C5_FailureLeavesContainerUntouched ==
    (last.op = "remove_multi" /\ last.outcome = "panic") => vec = last.pre

\* C5 (amended): when remove_multi's assertion fires, the elements at the
\* indices consumed before the failing check are already deleted and the
\* others are in their original order; the container is as before the call
\* only when no index was consumed before the failing check.
C5_FailureKeepsCommittedDeletions ==
    (last.op = "remove_multi" /\ last.outcome = "panic")
        => LET gone == DeletedBeforeFailure(last.args.indices, Len(last.pre))
           IN  /\ vec = WithoutOffsets(last.pre, gone)
               /\ (vec = last.pre) <=> (gone = {})

\* The assertion fired after an element had been deleted.
C5_Witness ==
    /\ last.op = "remove_multi"
    /\ last.args.indices = <<IndexFrom(0), IndexFrom(2), IndexFrom(1)>>
    /\ last.outcome = "panic"
    /\ last.at = "ascending"
    /\ last.pre = <<0, 1, 0>>
    /\ vec = <<1, 0>>

\* C6: push and push_in_place append the value and return the index equal to
\* the length before the call, and a pop that follows immediately returns that
\* index with that value and leaves the elements as they were before the push.
C6_PushThenPop ==
    [][ /\ last'.op \in {"push", "push_in_place"}
            => /\ last'.ret = IndexFrom(Len(vec))
               /\ Len(vec') = Len(vec) + 1
               /\ SubSeq(vec', 1, Len(vec)) = vec
               /\ vec'[Len(vec')] = IF last'.op = "push" THEN last'.args.value
                                    ELSE Call(last'.args.f, last'.ret)
        /\ (last.op \in {"push", "push_in_place"} /\ last'.op = "pop")
            => /\ last'.ret = Some(<<last.ret, vec[Len(vec)]>>)
               /\ last'.outcome = "ok"
               /\ vec' = last.pre
               /\ Len(vec') = Len(last.pre) ]_vars

\* A pop right after a push_in_place onto a container of two elements.
C6_Witness ==
    /\ last.op = "pop"
    /\ prevOp = "push_in_place"
    /\ Len(vec) = 2

\* C7: pop on an empty container returns None without failing and leaves it
\* empty; pop on n elements returns the last one with index n-1 and leaves the
\* first n-1 unchanged.
C7_Pop ==
    last.op = "pop"
        => IF last.pre = <<>>
           THEN last.ret = None /\ last.outcome = "ok" /\ vec = <<>>
           ELSE /\ last.ret = Some(<<IndexFrom(Len(last.pre) - 1), last.pre[Len(last.pre)]>>)
                /\ last.outcome = "ok"
                /\ vec = SubSeq(last.pre, 1, Len(last.pre) - 1)

\* pop was called on an empty container.
C7_Witness ==
    /\ last.op = "pop"
    /\ last.pre = <<>>
    /\ last.ret = None

RECURSIVE PopTimes(_, _)
PopTimes(v, k) == IF k = 0 THEN v ELSE PopTimes(pop(v).vec, k - 1)

\* C8: insert(i, v) with i <= n gives n+1 elements with v at position i, the
\* elements before i unchanged and those from i on one position to the right,
\* so that n-i pops later v is the last element, at position i; with i > n it
\* fails and leaves the container unchanged.
C8_Insert ==
    last.op = "insert"
        => LET i == IndexInto(last.args.index)
               n == Len(last.pre)
           IN  IF i <= n
               THEN /\ last.outcome = "ok"
                    /\ Len(vec) = n + 1
                    /\ vec[i + 1] = last.args.value
                    /\ \A j \in 0 .. (i - 1) : vec[j + 1] = last.pre[j + 1]
                    /\ \A j \in i .. (n - 1) : vec[j + 2] = last.pre[j + 1]
                    /\ LET popped == PopTimes(vec, n - i)
                       IN  /\ Len(popped) = i + 1
                           /\ popped[i + 1] = last.args.value
                           /\ pop(popped).ret = Some(<<last.args.index, last.args.value>>)
               ELSE last.outcome = "panic" /\ vec = last.pre

\* An insert strictly inside a container, in front of a different value.
C8_Witness ==
    /\ last.op = "insert"
    /\ IndexInto(last.args.index) = 1
    /\ Len(last.pre) = 2
    /\ last.args.value # last.pre[2]
    /\ last.outcome = "ok"

\* C9: iter() yields (i, C[i]) for i = 0 .. len-1 in ascending order,
\* iter_indices() the same indices, and either one consumed from the back
\* yields the reverse.
C9_Iteration ==
    LET pairs == [i \in 1 .. Len(vec) |-> <<IndexFrom(i - 1), vec[i]>>]
        indices == [i \in 1 .. Len(vec) |-> IndexFrom(i - 1)]
        backPairs == [i \in 1 .. Len(vec) |->
                        <<IndexFrom(Len(vec) - i), vec[Len(vec) - i + 1]>>]
        backIndices == [i \in 1 .. Len(vec) |-> IndexFrom(Len(vec) - i)]
    IN  /\ Collect("iter.next", iter(vec)) = pairs
        /\ Collect("iter_indices.next", iter_indices(vec)) = indices
        /\ Collect("iter.next_back", iter(vec)) = backPairs
        /\ Collect("iter_indices.next_back", iter_indices(vec)) = backIndices

\* A container of two different elements left behind by remove_multi.
C9_Witness ==
    /\ last.op = "remove_multi"
    /\ Len(last.pre) = 3
    /\ vec = <<0, 1>>

\* The offsets next (or next_back) has yielded, in the order yielded.
YieldedBy(name) ==
    LET mine == SelectSeq(ixLog.yielded, LAMBDA y : y.by = name)
    IN  [j \in 1 .. Len(mine) |-> IndexInto(mine[j].index)]

\* C10: for an IndexIterator created with start <= end, under any interleaving
\* of next and next_back: start_inclusive <= end_exclusive; only offsets of
\* [start, end) are yielded, none twice, and all of them once the iterator is
\* exhausted; next yields start, start+1, ... and next_back end-1, end-2, ...;
\* size_hint is the number of offsets not yet yielded; an exhausted iterator
\* answers None and does not change.
C10_IndexIterator ==
    ixLog.start <= ixLog.end
        => LET all == {IndexInto(ixLog.yielded[j].index) : j \in 1 .. Len(ixLog.yielded)}
               front == YieldedBy("next")
               back == YieldedBy("next_back")
               remaining == (ixLog.end - ixLog.start) - Len(ixLog.yielded)
           IN  /\ ixIter.start_inclusive <= ixIter.end_exclusive
               /\ all \subseteq ixLog.start .. (ixLog.end - 1)
               /\ Cardinality(all) = Len(ixLog.yielded)
               /\ ixIter.start_inclusive = ixIter.end_exclusive
                    => all = ixLog.start .. (ixLog.end - 1)
               /\ \A j \in 1 .. Len(front) : front[j] = ixLog.start + (j - 1)
               /\ \A j \in 1 .. Len(back) : back[j] = ixLog.end - j
               /\ size_hint(ixIter) = <<remaining, Some(remaining)>>
               /\ (ixLog.op \in {"next", "next_back"}
                      /\ ixLog.pre.start_inclusive = ixLog.pre.end_exclusive)
                    => ixLog.ret = None /\ ixIter = ixLog.pre

\* A range of three offsets consumed from both ends and then asked again.
C10_Witness ==
    /\ ixLog.end - ixLog.start = 3
    /\ Len(YieldedBy("next")) >= 1
    /\ Len(YieldedBy("next_back")) >= 1
    /\ Len(ixLog.yielded) = 3
    /\ ixLog.op = "next_back"
    /\ ixLog.ret = None

\* C3: reading back exactly the bytes write_binary wrote succeeds and returns
\* the container that was written; the bytes are the element count followed by
\* len * size_of::<Value>() payload bytes.
C3_RoundTrip ==
    readResult.intact
        => LET src == readResult.result.src
           IN  /\ readResult.result.tag = "Ok"
               /\ readResult.result.vec = written
               /\ Len(readResult.result.vec) = Len(written)
               /\ Len(src) = UsizeBytes + Len(written) * ValueSize
               /\ from_ne_bytes(SubSeq(src, 1, UsizeBytes), machine) = Len(written)

\* The container [42, 1337] written and read back on a big-endian machine.
C3_Witness ==
    /\ readResult.intact
    /\ written = <<42, 1337>>
    /\ machine = "be"
    /\ readResult.result.tag = "Ok"

\* C4: read_binary returns an I/O error whenever its source ends before the
\* whole image, and never returns Ok with a container longer than the elements
\* it read.
C4_TruncatedSourceIsAnError ==
    /\ (readResult.result.tag # "NotRead" /\ ~readResult.intact)
            => readResult.result.tag = "Err"
    /\ readResult.result.tag = "Ok"
            => Len(readResult.result.vec) * ValueSize <= readResult.result.bytes_read

====
